---- MODULE Spec2Model ----
(***************************************************************************)
(* A model of the RAG chatbot core: the conversation store (src/memory.py), *)
(* the generator with its primary/fallback policy (src/llm.py), the         *)
(* embedding index adapter (src/embeddings.py), the pipeline orchestrator   *)
(* (src/rag_pipeline.py) and the streaming query endpoint (api/main.py).    *)
(*                                                                         *)
(* Text is a sequence of atoms.  User text and backend text are sequences  *)
(* of one-character atoms; a literal of the program is a single atom.      *)
(* String concatenation is \o.                                             *)
(***************************************************************************)
EXTENDS Integers, Sequences, FiniteSets, TLC

VARIABLES
    conversations,   \* ConversationMemory.conversations: id -> list of turns
    clock,           \* the wall clock read by datetime.now()
    issued,          \* the identifiers uuid.uuid4() has produced so far
    collection,      \* the "documents" collection: sequence of stored chunks
    fallback_model,  \* LLMWrapper.fallback_model ("" when configured empty)
    ret,             \* the observable outcome of the last completed operation
    stream,          \* the state of the streaming query in progress, if any
    th               \* the threads calling the store concurrently

vars == <<conversations, clock, issued, collection, fallback_model, ret, stream, th>>

----------------------------------------------------------------------------
(* Bounds of the model *)

\* at most this many turns are appended to the store in one behaviour
MaxTotalTurns == 2
\* at most this many fragments are delivered by one backend stream
MaxFragments == 2
\* at most this many store calls are made by one thread
MaxCalls == 2
\* at most this many turns are held by the conversation whose history is sent
MaxHistory == 7
\* at most this many characters are in the text of a document given to the chunker
MaxTextLen == 3

\* Optional[T]: None, or Some(x)
None == <<>>
Some(x) == <<x>>

\* identifiers uuid4 can produce, and identifiers chosen by callers
UUIDs == {"u1", "u2"}
OutOfBandIds == {"ext"}

\* questions: user text
Questions == {<<"q">>, <<"r">>}

\* values of max_turns a caller can pass
MaxTurnsArgs == {None} \cup {Some(n) : n \in -1 .. 3}

\* values of top_k a caller can pass
TopKArgs == {1, 5}

----------------------------------------------------------------------------
(* Python helpers *)

Min(a, b) == IF a < b THEN a ELSE b
Max(a, b) == IF a > b THEN a ELSE b

\* s[start:] with Python's index normalisation
PySliceFrom(s, start) ==
    LET n == Len(s)
        lo == IF start < 0 THEN Max(n + start, 0) ELSE Min(start, n)
    IN  SubSeq(s, lo + 1, n)

\* s[:stop] for stop >= 0
PySliceTo(s, stop) == SubSeq(s, 1, Min(stop, Len(s)))

IsSpace(c) == c \in {" ", "\n", "\t"}

RECURSIVE LStrip(_)
LStrip(s) == IF s # <<>> /\ IsSpace(Head(s)) THEN LStrip(Tail(s)) ELSE s

RECURSIVE RStrip(_)
RStrip(s) ==
    IF s # <<>> /\ IsSpace(s[Len(s)]) THEN RStrip(SubSeq(s, 1, Len(s) - 1)) ELSE s

\* str.strip()
Strip(s) == RStrip(LStrip(s))

\* truthiness of an Optional[int], an Optional[str] and an Optional[list]
TruthyInt(x) == x # None /\ x[1] # 0
TruthyStr(x) == x # None /\ x[1] # ""
TruthyList(x) == x # None /\ x[1] # <<>>

\* the exception classes of the program (src/error_handling.py): every class derives
\* from ChatbotError, and from no other class of the program
ErrorClasses == {"ChatbotError", "DocumentIngestionError", "EmbeddingError", "LLMError",
                 "DatabaseError", "RetrievalError"}

\* isinstance(e, kind) for an exception e of class error
IsInstance(error, kind) == error = kind \/ kind = "ChatbotError"

----------------------------------------------------------------------------
(* ConversationMemory (src/memory.py), each method as one atomic call *)

Known(convs, id) == id \in DOMAIN convs

\* self.conversations[id] = log
Put(convs, id, log) == [k \in (DOMAIN convs) \cup {id} |-> IF k = id THEN log ELSE convs[k]]

\* del self.conversations[id]
Del(convs, id) == [k \in (DOMAIN convs) \ {id} |-> convs[k]]

\* the values uuid.uuid4() can return: an identifier never produced before
uuid4Reused(used) == UUIDs
uuid4(used) == UUIDs \ used

Turn(ts, user_message, assistant_message) ==
    [timestamp |-> ts, user |-> user_message, assistant |-> assistant_message]

\* the store after add_conversation_turn(conversation_id, user, assistant) at time now
add_conversation_turn_NoLazy(convs, id, user_message, assistant_message, now) ==
    IF Known(convs, id)
    THEN Put(convs, id, Append(convs[id], Turn(now, user_message, assistant_message)))
    ELSE convs
add_conversation_turn_Overwrite(convs, id, user_message, assistant_message, now) ==
    Put(convs, id, <<Turn(now, user_message, assistant_message)>>)
add_conversation_turn_Swapped(convs, id, user_message, assistant_message, now) ==
    LET log == IF Known(convs, id) THEN convs[id] ELSE <<>>
    IN  Put(convs, id, Append(log, Turn(now, assistant_message, user_message)))
add_conversation_turn(convs, id, user_message, assistant_message, now) ==
    LET log == IF Known(convs, id) THEN convs[id] ELSE <<>>
    IN  Put(convs, id, Append(log, Turn(now, user_message, assistant_message)))

\* the value of get_conversation_history(conversation_id, max_turns)
get_conversation_history_Prefix(convs, id, max_turns) ==
    IF ~Known(convs, id) THEN <<>>
    ELSE IF TruthyInt(max_turns) THEN PySliceTo(convs[id], Max(max_turns[1], 0))
    ELSE convs[id]
get_conversation_history(convs, id, max_turns) ==
    IF ~Known(convs, id) THEN <<>>
    ELSE IF TruthyInt(max_turns) THEN PySliceFrom(convs[id], 0 - max_turns[1])
    ELSE convs[id]

\* delete_conversation(conversation_id): the value returned and the store afterwards
delete_conversation_NonEmptyOnly(convs, id) ==
    IF Known(convs, id) /\ convs[id] # <<>>
    THEN [value |-> TRUE, convs |-> Del(convs, id)]
    ELSE [value |-> FALSE, convs |-> convs]
delete_conversation(convs, id) ==
    IF Known(convs, id)
    THEN [value |-> TRUE, convs |-> Del(convs, id)]
    ELSE [value |-> FALSE, convs |-> convs]

PreviewLen == 100

\* the summary list_conversations builds for one non-empty conversation
Summary(id, history) ==
    [conversation_id |-> id,
     title |-> "Local Chat",
     created_at |-> history[1].timestamp,
     last_updated |-> history[Len(history)].timestamp,
     message_count |-> Len(history),
     preview |-> IF Len(history[1].user) > PreviewLen
                 THEN PySliceTo(history[1].user, PreviewLen) \o <<".", ".", ".">>
                 ELSE history[1].user]

\* the summaries list_conversations returns (as a set: the order of the dict is not modelled)
list_conversations(convs) ==
    {Summary(id, convs[id]) : id \in {k \in DOMAIN convs : convs[k] # <<>>}}

\* identifiers a caller can pass: those create_conversation returned, and its own
CallerIds == issued \cup OutOfBandIds

Idle == [op |-> "idle"]

CreateConversation ==
    /\ ret = Idle
    /\ \E id \in uuid4(issued) :
        /\ conversations' = Put(conversations, id, <<>>)
        /\ issued' = issued \cup {id}
        /\ ret' = [op |-> "create", status |-> "return", value |-> id,
                   before |-> conversations, issued_before |-> issued]
    /\ UNCHANGED <<clock, collection, fallback_model, stream, th>>

AddConversationTurn ==
    /\ ret = Idle
    /\ clock < MaxTotalTurns
    /\ \E id \in CallerIds, q \in Questions, a \in {<<"O", "K">>} :
        /\ conversations' = add_conversation_turn(conversations, id, q, a, clock)
        /\ ret' = [op |-> "append", status |-> "return", cid |-> id, user |-> q,
                   assistant |-> a, before |-> conversations]
    /\ clock' = clock + 1
    /\ UNCHANGED <<issued, collection, fallback_model, stream, th>>

GetConversationHistory ==
    /\ ret = Idle
    /\ \E id \in CallerIds, n \in MaxTurnsArgs :
        ret' = [op |-> "history", status |-> "return", cid |-> id, max_turns |-> n,
                value |-> get_conversation_history(conversations, id, n),
                before |-> conversations]
    /\ UNCHANGED <<conversations, clock, issued, collection, fallback_model, stream, th>>

DeleteConversation ==
    /\ ret = Idle
    /\ \E id \in CallerIds :
        /\ conversations' = delete_conversation(conversations, id).convs
        /\ ret' = [op |-> "delete", status |-> "return", cid |-> id,
                   value |-> delete_conversation(conversations, id).value,
                   before |-> conversations]
    /\ UNCHANGED <<clock, issued, collection, fallback_model, stream, th>>

ListConversations ==
    /\ ret = Idle
    /\ ret' = [op |-> "list", status |-> "return",
               value |-> list_conversations(conversations), before |-> conversations]
    /\ UNCHANGED <<conversations, clock, issued, collection, fallback_model, stream, th>>

ClearAllConversations ==
    /\ ret = Idle
    /\ DOMAIN conversations # {}
    /\ conversations' = << >>
    /\ ret' = [op |-> "clear_all", status |-> "return", before |-> conversations]
    /\ UNCHANGED <<clock, issued, collection, fallback_model, stream, th>>

----------------------------------------------------------------------------
(* Ingestion reader and chunker (src/ingest.py, src/preprocess.py) *)

\* the files a caller can name: path -> what the reader finds there
FilePaths == {"a.txt", "b.txt", "gone.txt", "c.md", "d/a.txt"}
FileExists(path) == path # "gone.txt"
FileSuffix(path) == IF path = "c.md" THEN ".md" ELSE ".txt"
FileContent(path) == IF path = "a.txt" THEN <<"A", ".">> ELSE <<"B", ".">>
\* Path(file_path).name: the last component of the path
FileName(path) == IF path = "d/a.txt" THEN "a.txt" ELSE path
supported_extensions == {".pdf", ".txt"}

\* ingest_document(file_path): the document, or DocumentIngestionError
ingest_document(path) ==
    IF ~FileExists(path) \/ FileSuffix(path) \notin supported_extensions
    THEN [status |-> "raise", error |-> "DocumentIngestionError"]
    ELSE [status |-> "return",
          value |-> [file_path |-> path, file_name |-> FileName(path),
                     content |-> Strip(FileContent(path))]]

\* the characters of the model's alphabet that \w matches, and the punctuation kept
WordChars == {"A", "B", "O", "K", "q", "r", "_"}
KeptPunctuation == {".", ",", "!", "?", ";", ":", "-", "'", "\"", "(", ")"}

\* re.sub(r'\s+', ' ', text)
\* (computed by halves: a run of whitespace that spans the two halves is counted once)
RECURSIVE CollapseSpaces(_)
CollapseSpaces(s) ==
    IF s = <<>> THEN <<>>
    ELSE IF Len(s) = 1 THEN (IF IsSpace(s[1]) THEN <<" ">> ELSE s)
    ELSE LET mid == Len(s) \div 2
             left == CollapseSpaces(SubSeq(s, 1, mid))
             right == CollapseSpaces(SubSeq(s, mid + 1, Len(s)))
         IN  IF left[Len(left)] = " " /\ right[1] = " " THEN left \o Tail(right)
             ELSE left \o right

\* re.sub(r'[^\w\s\.,!?;:\-\'"()]', '', text)
DropSpecial(s) ==
    SelectSeq(s, LAMBDA c : c \in WordChars \/ IsSpace(c) \/ c \in KeptPunctuation)

clean_text(text) == Strip(DropSpecial(CollapseSpaces(text)))

\* text_splitter.split_text on a text no longer than chunk_size
split_text(text) == IF text = <<>> THEN <<>> ELSE <<text>>

\* chunk_document(document): the chunk dictionaries of one document; when cleaning or
\* splitting raises (failed), the exception is caught and the empty list is returned
chunk_document_OneBased(document, failed) ==
    LET chunks == split_text(clean_text(document.content))
    IN  IF failed THEN << >> ELSE
        [i \in 1 .. Len(chunks) |->
            [chunk_id |-> <<document.file_name, "_chunk_", ToString(i)>>,
             source_document |-> document.file_name,
             source_path |-> document.file_path,
             chunk_index |-> i,
             content |-> chunks[i],
             chunk_size |-> Len(chunks[i])]]
chunk_document(document, failed) ==
    LET chunks == split_text(clean_text(document.content))
    IN  IF failed THEN << >> ELSE
        [i \in 1 .. Len(chunks) |->
            [chunk_id |-> <<document.file_name, "_chunk_", ToString(i - 1)>>,
             source_document |-> document.file_name,
             source_path |-> document.file_path,
             chunk_index |-> i - 1,
             content |-> chunks[i],
             chunk_size |-> Len(chunks[i])]]

\* process_documents(documents), the chunking of the documents named in failing raising
RECURSIVE process_documents(_, _)
process_documents(documents, failing) ==
    IF documents = <<>> THEN <<>>
    ELSE chunk_document(Head(documents), Head(documents).file_name \in failing)
         \o process_documents(Tail(documents), failing)

----------------------------------------------------------------------------
(* EmbeddingManager (src/embeddings.py) over the "documents" collection *)

Ids(coll) == {coll[i].id : i \in 1 .. Len(coll)}

\* the faults the embedding model and the vector store can raise in one call
Faults == {"none", "down"}

\* how the vector store treats an add of ids it already holds: the client versions that
\* provide PersistentClient (embeddings.py, line 22) leave the held entries as they are
\* ("skip"); "reject" is the refusal of the versions before them
AddPolicies == {"skip"}

RECURSIVE NewEntries(_, _)
NewEntries(chunks, held) ==
    IF chunks = <<>> THEN <<>>
    ELSE LET c == Head(chunks)
         IN  IF c.chunk_id \in held THEN NewEntries(Tail(chunks), held)
             ELSE <<[id |-> c.chunk_id, content |-> c.content,
                     metadata |-> [source_document |-> c.source_document,
                                   source_path |-> c.source_path,
                                   chunk_index |-> c.chunk_index,
                                   chunk_size |-> c.chunk_size]]>>
                  \o NewEntries(Tail(chunks), held)

\* add_documents(chunks): the collection afterwards, or EmbeddingError
add_documents_Append(coll, chunks, fault, policy) ==
    IF fault # "none" \/ chunks = <<>>
    THEN [status |-> "raise", error |-> "EmbeddingError", coll |-> coll]
    ELSE [status |-> "return", coll |-> coll \o NewEntries(chunks, {})]
add_documents(coll, chunks, fault, policy) ==
    LET ids == {chunks[i].chunk_id : i \in 1 .. Len(chunks)}
        refused == \/ fault # "none"
                   \/ chunks = <<>>
                   \/ Cardinality(ids) # Len(chunks)
                   \/ policy = "reject" /\ ids \cap Ids(coll) # {}
    IN  IF refused THEN [status |-> "raise", error |-> "EmbeddingError", coll |-> coll]
        ELSE [status |-> "return", coll |-> coll \o NewEntries(chunks, Ids(coll))]

\* search_similar(query, top_k): the passages found, or EmbeddingError
search_similar(coll, query, top_k, fault) ==
    IF fault # "none" \/ top_k <= 0
    THEN [status |-> "raise", error |-> "EmbeddingError"]
    ELSE [status |-> "return",
          value |-> [i \in 1 .. Min(top_k, Len(coll)) |->
                        [id |-> coll[i].id, content |-> coll[i].content,
                         metadata |-> coll[i].metadata, distance |-> i]]]

\* clear_collection(): the collection afterwards, or EmbeddingError
\* ("delete": delete_collection failed; "create": get_or_create_collection failed)
ClearFaults == {"none", "delete", "create"}
clear_collection_Keep(coll, fault) == [status |-> "return", coll |-> coll]
clear_collection(coll, fault) ==
    IF fault = "delete" THEN [status |-> "raise", error |-> "EmbeddingError", coll |-> coll]
    ELSE IF fault = "create" THEN [status |-> "raise", error |-> "EmbeddingError", coll |-> <<>>]
    ELSE [status |-> "return", coll |-> <<>>]

----------------------------------------------------------------------------
(* LLMWrapper (src/llm.py) *)

\* settings.llm_model, and the values settings.llm_fallback_model can be configured to
model == "amazon/nova-2-lite"
FallbackModels == {"meta-llama/llama-3.2-3b-instruct:free", ""}

RagSystemPrompt == <<"You are a helpful AI assistant that answers questions based on the provided context. ...">>
ChatSystemPrompt == <<"You are a helpful, friendly AI assistant. Answer questions clearly and concisely.">>

HistoryWindow == 5

\* what one chat.completions.create call can do: raise, answer with no content, answer a text
BackendOutcomes ==
    {[kind |-> "error"], [kind |-> "null"],
     [kind |-> "text", content |-> <<" ", "O", "K", "\n">>]}

\* the outcomes of the successive backend calls of one request
Oracles == [1 .. 2 -> BackendOutcomes]

Message(role, content) == [role |-> role, content |-> content]

\* response.choices[0].message.content.strip() raises on a missing content
Answers(outcome) == outcome.kind = "text"

RECURSIVE JoinSources(_, _)
JoinSources(docs, i) ==
    IF i > Len(docs) THEN <<>>
    ELSE <<"Source ", ToString(i), " (">> \o <<docs[i].metadata.source_document>> \o <<"):\n">>
         \o docs[i].content
         \o (IF i < Len(docs) THEN <<"\n\n">> ELSE <<>>)
         \o JoinSources(docs, i + 1)

_build_context(context_documents) ==
    IF context_documents = <<>> THEN <<"No relevant context found.">>
    ELSE JoinSources(context_documents, 1)

\* the user and assistant messages of the given turns, oldest first
RECURSIVE TurnMessages(_)
TurnMessages(turns) ==
    IF turns = <<>> THEN <<>>
    ELSE <<Message("user", Head(turns).user), Message("assistant", Head(turns).assistant)>>
         \o TurnMessages(Tail(turns))

HistoryMessages_All(conversation_history) ==
    IF TruthyList(conversation_history) THEN TurnMessages(conversation_history[1]) ELSE <<>>
HistoryMessages(conversation_history) ==
    IF TruthyList(conversation_history)
    THEN TurnMessages(PySliceFrom(conversation_history[1], 0 - HistoryWindow))
    ELSE <<>>

_build_messages(query, context, conversation_history) ==
    <<Message("system", RagSystemPrompt)>>
    \o HistoryMessages(conversation_history)
    \o <<Message("user", <<"Context:\n">> \o context \o <<"\n\nQuestion: ">> \o query)>>

\* the messages generate_general_response builds
GeneralMessages(query, conversation_history) ==
    <<Message("system", ChatSystemPrompt)>>
    \o HistoryMessages(conversation_history)
    \o <<Message("user", query)>>

Call(m, messages, outcome, streaming) ==
    [model |-> m, messages |-> messages, ok |-> Answers(outcome), stream |-> streaming]

\* generate_response(query, context_documents, conversation_history, use_fallback),
\* the backend answering its calls as oracle says from call number n on
RECURSIVE generate_response_from(_, _, _, _, _, _, _)
generate_response_from(query, context_documents, conversation_history, use_fallback, fallback, oracle, n) ==
    LET messages == _build_messages(query, _build_context(context_documents),
                                    conversation_history)
        call == Call(IF use_fallback THEN fallback ELSE model, messages, oracle[n], FALSE)
    IN  IF Answers(oracle[n])
        THEN [status |-> "return", answer |-> Strip(oracle[n].content), calls |-> <<call>>]
        ELSE IF ~use_fallback
        THEN LET retry == generate_response_from(query, context_documents,
                              conversation_history, TRUE, fallback, oracle, n + 1)
             IN  [retry EXCEPT !.calls = <<call>> \o retry.calls]
        ELSE [status |-> "raise", error |-> "LLMError", calls |-> <<call>>]

generate_response_NoRetry(query, context_documents, conversation_history, fallback, oracle) ==
    generate_response_from(query, context_documents, conversation_history, TRUE,
                           model, oracle, 1)
generate_response(query, context_documents, conversation_history, fallback, oracle) ==
    generate_response_from(query, context_documents, conversation_history, FALSE,
                           fallback, oracle, 1)

\* generate_general_response(query, conversation_history)
generate_general_response_NoFallback(query, conversation_history, fallback, oracle) ==
    LET first == Call(model, GeneralMessages(query, conversation_history), oracle[1], FALSE)
    IN  IF Answers(oracle[1])
        THEN [status |-> "return", answer |-> Strip(oracle[1].content), calls |-> <<first>>]
        ELSE [status |-> "raise", error |-> "LLMError", calls |-> <<first>>]
generate_general_response(query, conversation_history, fallback, oracle) ==
    LET messages == GeneralMessages(query, conversation_history)
        first == Call(model, messages, oracle[1], FALSE)
        second == Call(fallback, messages, oracle[2], FALSE)
    IN  IF Answers(oracle[1])
        THEN [status |-> "return", answer |-> Strip(oracle[1].content), calls |-> <<first>>]
        ELSE IF fallback = ""
        THEN [status |-> "raise", error |-> "LLMError", calls |-> <<first>>]
        ELSE IF Answers(oracle[2])
        THEN [status |-> "return", answer |-> Strip(oracle[2].content),
              calls |-> <<first, second>>]
        ELSE [status |-> "raise", error |-> "LLMError", calls |-> <<first, second>>]

----------------------------------------------------------------------------
(* RAGPipeline (src/rag_pipeline.py) *)

SourcePreviewLen == 200

Source(doc) ==
    [source |-> doc.metadata.source_document,
     content_preview |-> IF Len(doc.content) > SourcePreviewLen
                         THEN PySliceTo(doc.content, SourcePreviewLen) \o <<".", ".", ".">>
                         ELSE doc.content]

\* ask_question without the inner try/except around the retrieval step
ask_question_Propagating(convs, coll, fallback, now, question, conversation_id, top_k, fault, oracle) ==
    LET found == search_similar(coll, question, top_k, fault)
        docs == IF found.status = "return" THEN found.value ELSE <<>>
        gen == generate_general_response(question, None, fallback, oracle)
        seen == [retrieval |-> found.status,
                 mode |-> IF docs # <<>> THEN "rag" ELSE "general", docs |-> docs, gen |-> gen]
    IN  IF found.status = "raise" \/ gen.status = "raise"
        THEN [status |-> "raise", error |-> "ChatbotError", convs |-> convs, seen |-> seen]
        ELSE [status |-> "return",
              value |-> [answer |-> gen.answer,
                         sources |-> [i \in 1 .. Len(docs) |-> Source(docs[i])],
                         conversation_id |-> conversation_id],
              convs |-> convs, seen |-> seen]

ask_question_TurnFirst(convs, coll, fallback, now, question, conversation_id, top_k, fault, oracle) ==
    LET found == search_similar(coll, question, top_k, fault)
        relevant_docs == IF found.status = "return" THEN found.value ELSE <<>>
        conversation_history ==
            IF TruthyStr(conversation_id)
            THEN Some(get_conversation_history(convs, conversation_id[1], None))
            ELSE None
        gen == IF relevant_docs # <<>>
               THEN generate_response(question, relevant_docs, conversation_history,
                                      fallback, oracle)
               ELSE generate_general_response(question, conversation_history,
                                              fallback, oracle)
        seen == [retrieval |-> found.status,
                 mode |-> IF relevant_docs # <<>> THEN "rag" ELSE "general",
                 docs |-> relevant_docs,
                 gen |-> gen]
        stored == IF TruthyStr(conversation_id)
                  THEN add_conversation_turn(convs, conversation_id[1], question,
                                             IF gen.status = "raise" THEN <<>> ELSE gen.answer,
                                             now)
                  ELSE convs
    IN  IF gen.status = "raise"
        THEN [status |-> "raise", error |-> "ChatbotError", convs |-> stored, seen |-> seen]
        ELSE [status |-> "return",
              value |-> [answer |-> gen.answer,
                         sources |-> [i \in 1 .. Len(relevant_docs) |->
                                         Source(relevant_docs[i])],
                         conversation_id |-> conversation_id],
              convs |-> stored,
              seen |-> seen]

\* ask_question(question, conversation_id, top_k): what it returns or raises, the store
\* afterwards, and what it did on the way (retrieval outcome, mode, backend calls)
ask_question(convs, coll, fallback, now, question, conversation_id, top_k, fault, oracle) ==
    LET found == search_similar(coll, question, top_k, fault)
        relevant_docs == IF found.status = "return" THEN found.value ELSE <<>>
        conversation_history ==
            IF TruthyStr(conversation_id)
            THEN Some(get_conversation_history(convs, conversation_id[1], None))
            ELSE None
        gen == IF relevant_docs # <<>>
               THEN generate_response(question, relevant_docs, conversation_history,
                                      fallback, oracle)
               ELSE generate_general_response(question, conversation_history,
                                              fallback, oracle)
        seen == [retrieval |-> found.status,
                 mode |-> IF relevant_docs # <<>> THEN "rag" ELSE "general",
                 docs |-> relevant_docs,
                 gen |-> gen]
    IN  IF gen.status = "raise"
        THEN [status |-> "raise", error |-> "ChatbotError", convs |-> convs, seen |-> seen]
        ELSE [status |-> "return",
              value |-> [answer |-> gen.answer,
                         sources |-> [i \in 1 .. Len(relevant_docs) |->
                                         Source(relevant_docs[i])],
                         conversation_id |-> conversation_id],
              convs |-> IF TruthyStr(conversation_id)
                        THEN add_conversation_turn(convs, conversation_id[1], question,
                                                   gen.answer, now)
                        ELSE convs,
              seen |-> seen]

\* the conversation_id arguments a caller of ask_question can pass
AskIds == {None, Some("")} \cup {Some(id) : id \in CallerIds}

AskQuestion ==
    /\ ret = Idle
    /\ clock < MaxTotalTurns
    /\ \E question \in Questions, conversation_id \in AskIds, top_k \in TopKArgs,
          fault \in Faults, oracle \in Oracles :
        LET r == ask_question(conversations, collection, fallback_model, clock,
                              question, conversation_id, top_k, fault, oracle)
        IN  /\ conversations' = r.convs
            /\ clock' = IF r.convs # conversations THEN clock + 1 ELSE clock
            /\ ret' = [op |-> "ask", status |-> r.status,
                       out |-> IF r.status = "return" THEN r.value ELSE r.error,
                       question |-> question, conversation_id |-> conversation_id,
                       seen |-> r.seen, before |-> conversations,
                       index_size |-> Len(collection)]
    /\ UNCHANGED <<issued, collection, fallback_model, stream, th>>

\* the documents of the readable files of file_paths, or the first failure
RECURSIVE ReadAll(_)
ReadAll(file_paths) ==
    IF file_paths = <<>> THEN [status |-> "return", value |-> <<>>]
    ELSE LET doc == ingest_document(Head(file_paths))
             rest == ReadAll(Tail(file_paths))
         IN  IF doc.status = "raise" THEN doc
             ELSE IF rest.status = "raise" THEN rest
             ELSE [status |-> "return", value |-> <<doc.value>> \o rest.value]

\* the documents of the files that precede the first file that cannot be read
RECURSIVE ReadablePrefix(_)
ReadablePrefix(file_paths) ==
    IF file_paths = <<>> \/ ingest_document(Head(file_paths)).status = "raise" THEN <<>>
    ELSE <<ingest_document(Head(file_paths)).value>> \o ReadablePrefix(Tail(file_paths))

\* ingest_documents(file_paths): the collection afterwards, and the error raised if any
ingest_documents_PerFile(coll, file_paths, fault, policy, failing) ==
    LET documents == ReadAll(file_paths)
        earlier == add_documents(coll, process_documents(ReadablePrefix(file_paths), failing),
                                 fault, policy)
        chunks == process_documents(ReadablePrefix(file_paths), failing)
        added == add_documents(coll, chunks, fault, policy)
    IN  IF documents.status = "raise"
        THEN [status |-> "raise", error |-> "ChatbotError", cause |-> documents.error,
              coll |-> earlier.coll]
        ELSE IF added.status = "raise"
        THEN [status |-> "raise", error |-> "ChatbotError", cause |-> added.error,
              coll |-> added.coll]
        ELSE [status |-> "return", cause |-> "", error |-> "", coll |-> added.coll]
ingest_documents(coll, file_paths, fault, policy, failing) ==
    LET documents == ReadAll(file_paths)
    IN  IF documents.status = "raise"
        THEN [status |-> "raise", error |-> "ChatbotError", cause |-> documents.error, coll |-> coll]
        ELSE LET chunks == process_documents(documents.value, failing)
                 added == add_documents(coll, chunks, fault, policy)
             IN  IF added.status = "raise"
                 THEN [status |-> "raise", error |-> "ChatbotError", cause |-> added.error,
                       coll |-> added.coll]
                 ELSE [status |-> "return", cause |-> "", error |-> "", coll |-> added.coll]

\* the documents whose chunking raises during one ingest call (file names)
ChunkFaults == {{}, {"b.txt"}}

\* the batches of paths a caller passes to ingest_documents
Batches == {<<"a.txt">>, <<"gone.txt">>, <<"c.md">>,
            <<"a.txt", "b.txt">>, <<"a.txt", "gone.txt">>, <<"a.txt", "d/a.txt">>}

IngestDocuments ==
    /\ ret = Idle
    /\ \E file_paths \in Batches, fault \in Faults, policy \in AddPolicies,
          failing \in ChunkFaults :
        LET r == ingest_documents(collection, file_paths, fault, policy, failing)
        IN  /\ collection' = r.coll
            /\ ret' = [op |-> "ingest", status |-> r.status, error |-> r.error,
                       cause |-> r.cause, file_paths |-> file_paths, fault |-> fault,
                       failing |-> failing,
                       index_before |-> collection]
    /\ UNCHANGED <<conversations, clock, issued, fallback_model, stream, th>>

\* clear_knowledge_base()
ClearKnowledgeBase ==
    /\ ret = Idle
    /\ \E fault \in ClearFaults :
        LET r == clear_collection(collection, fault)
        IN  /\ collection' = r.coll
            /\ ret' = [op |-> "clear_kb", status |-> r.status,
                       error |-> IF r.status = "raise" THEN "ChatbotError" ELSE "",
                       index_before |-> collection]
    /\ UNCHANGED <<conversations, clock, issued, fallback_model, stream, th>>

----------------------------------------------------------------------------
(* The pipeline used by one caller at a time *)

NoStream == [pc |-> "idle"]
NoThreads == <<>>

Init ==
    /\ conversations = << >>
    /\ clock = 0
    /\ issued = {}
    /\ collection = << >>
    /\ fallback_model \in FallbackModels
    /\ ret = Idle
    /\ stream = NoStream
    /\ th = NoThreads

\* the caller takes the outcome of the call; the next call can start
Return ==
    /\ ret # Idle
    /\ ret' = Idle
    /\ UNCHANGED <<conversations, clock, issued, collection, fallback_model, stream, th>>

Next ==
    \/ Return
    \/ CreateConversation
    \/ AddConversationTurn
    \/ GetConversationHistory
    \/ DeleteConversation
    \/ ListConversations
    \/ ClearAllConversations
    \/ AskQuestion
    \/ IngestDocuments
    \/ ClearKnowledgeBase

Spec == Init /\ [][Next]_vars

----------------------------------------------------------------------------
(* The streaming query: query_documents_stream.generate_stream (api/main.py) over *)
(* LLMWrapper.generate_response_stream (src/llm.py).  The generator is suspended  *)
(* at each fragment it yields, and other requests run in between.                 *)

\* the n-th piece of the answer the backend streams
Piece(n) == IF n % 2 = 1 THEN <<"O">> ELSE <<"K">>

\* what a backend stream delivers, after n - 1 pieces, before it ends or raises or the
\* generator yields: deltas without content, then possibly the n-th piece
DeltaRuns(n) == {<< >>, << <<>> >>, << Piece(n) >>, << <<>>, Piece(n) >>}
StreamEvents == {"end", "raise"}

\* the fragment generate_stream yields when it catches an exception
ErrorFragment(error) == <<"\n\nError: ", error>>

\* generate_response_stream up to the backend call: the call it makes, or LLMError
generate_response_stream(query, context_documents, conversation_history, outcome) ==
    LET messages == _build_messages(query, _build_context(context_documents),
                                    conversation_history)
        call == Call(model, messages, outcome, TRUE)
    IN  IF Answers(outcome) THEN [status |-> "return", calls |-> <<call>>]
        ELSE [status |-> "raise", error |-> "LLMError", calls |-> <<call>>]

\* the first delta of the run that has content (`if chunk.choices[0].delta.content`)
RECURSIVE FirstContent(_)
FirstContent(deltas) ==
    IF deltas = <<>> THEN <<>>
    ELSE IF Head(deltas) # <<>> THEN Head(deltas)
    ELSE FirstContent(Tail(deltas))

\* generate_stream resumed until it yields again or finishes: the backend delivers
\* deltas and then `event`; s is the generator's state, convs and now the store and clock
generate_stream_Retry(s, convs, now, deltas, event) ==
    LET chunk == FirstContent(deltas)
    IN  IF chunk # <<>>
        THEN [stream |-> [s EXCEPT !.pc = "suspended", !.full_answer = @ \o chunk,
                                   !.sent = Append(@, chunk)],
              convs |-> convs]
        ELSE IF event = "raise"
        THEN [stream |-> [s EXCEPT !.pc = "suspended", !.full_answer = <<>>,
                                   !.calls = @ \o @],
              convs |-> convs]
        ELSE [stream |-> [s EXCEPT !.pc = "done"],
              convs |-> IF TruthyStr(s.conversation_id)
                        THEN add_conversation_turn(convs, s.conversation_id[1], s.question,
                                                   s.full_answer, now)
                        ELSE convs]
generate_stream(s, convs, now, deltas, event) ==
    LET chunk == FirstContent(deltas)
    IN  IF chunk # <<>>
        THEN [stream |-> [s EXCEPT !.pc = "suspended", !.full_answer = @ \o chunk,
                                   !.sent = Append(@, chunk)],
              convs |-> convs]
        ELSE IF event = "raise"
        THEN [stream |-> [s EXCEPT !.pc = "failed",
                                   !.sent = Append(@, ErrorFragment("LLMError"))],
              convs |-> convs]
        ELSE [stream |-> [s EXCEPT !.pc = "done"],
              convs |-> IF TruthyStr(s.conversation_id)
                        THEN add_conversation_turn(convs, s.conversation_id[1], s.question,
                                                   s.full_answer, now)
                        ELSE convs]

Streaming(req, docs, calls) ==
    [pc |-> "running", question |-> req.question, conversation_id |-> req.conversation_id,
     docs |-> docs, calls |-> calls, full_answer |-> <<>>, sent |-> <<>>]

\* the request arrives: retrieval, history and the backend call are made, and the
\* generator runs to its first fragment, to the end of the stream or to a failure
StreamStart ==
    /\ stream.pc = "idle"
    /\ ret = Idle
    /\ clock < MaxTotalTurns
    /\ \E question \in Questions, conversation_id \in AskIds, top_k \in TopKArgs,
          fault \in Faults, outcome \in BackendOutcomes,
          deltas \in DeltaRuns(1), event \in StreamEvents :
        LET req == [question |-> question, conversation_id |-> conversation_id]
            found == search_similar(collection, question, top_k, fault)
            conversation_history ==
                IF TruthyStr(conversation_id)
                THEN Some(get_conversation_history(conversations, conversation_id[1], None))
                ELSE None
            opened == generate_response_stream(question, found.value,
                                               conversation_history, outcome)
            r == generate_stream(Streaming(req, found.value, opened.calls),
                                 conversations, clock, deltas, event)
        IN  IF found.status = "raise"
            THEN /\ stream' = [Streaming(req, <<>>, <<>>) EXCEPT
                                  !.pc = "failed", !.sent = <<ErrorFragment(found.error)>>]
                 /\ UNCHANGED <<conversations, clock>>
            ELSE IF opened.status = "raise"
            THEN /\ stream' = [Streaming(req, found.value, opened.calls) EXCEPT
                                  !.pc = "failed", !.sent = <<ErrorFragment(opened.error)>>]
                 /\ UNCHANGED <<conversations, clock>>
            ELSE /\ stream' = r.stream
                 /\ conversations' = r.convs
                 /\ clock' = IF r.convs # conversations THEN clock + 1 ELSE clock
    /\ UNCHANGED <<issued, collection, fallback_model, ret, th>>

\* the consumer asks for the next fragment: the suspended generator is resumed
StreamNext ==
    /\ stream.pc = "suspended"
    /\ ret = Idle
    /\ clock < MaxTotalTurns
    /\ \E deltas \in DeltaRuns(Len(stream.sent) + 1), event \in StreamEvents :
        LET r == generate_stream(stream, conversations, clock, deltas, event)
        IN  /\ r.stream.pc = "suspended" => Len(stream.sent) < MaxFragments
            /\ stream' = r.stream
            /\ conversations' = r.convs
            /\ clock' = IF r.convs # conversations THEN clock + 1 ELSE clock
    /\ UNCHANGED <<issued, collection, fallback_model, ret, th>>

\* the consumer stops reading: the suspended generator is closed
StreamAbandon ==
    /\ stream.pc = "suspended"
    /\ ret = Idle
    /\ stream' = [stream EXCEPT !.pc = "abandoned"]
    /\ UNCHANGED <<conversations, clock, issued, collection, fallback_model, ret, th>>

\* the response is over; the next streaming request can arrive
StreamClose ==
    /\ stream.pc \in {"done", "failed", "abandoned"}
    /\ stream' = NoStream
    /\ UNCHANGED <<conversations, clock, issued, collection, fallback_model, ret, th>>

\* the WebSocket chat (api/main.py, websocket_chat): one conversation per connection;
\* the handler is suspended at each message it sends, and other requests run in between

\* an entry of the sources list of the "end" message
WsSource(doc) ==
    [source |-> doc.metadata.source_document,
     content_preview |-> PySliceTo(doc.content, SourcePreviewLen)]

\* websocket_chat resumed until its next send or until the turn is stored
websocket_chat_TurnBeforeEnd(s, convs, now, deltas, event) ==
    LET chunk == FirstContent(deltas)
        stored == add_conversation_turn(convs, s.conversation_id[1], s.question,
                                        s.full_answer, now)
    IN  IF s.pc = "ws_end"
        THEN [stream |-> [s EXCEPT !.pc = "ws_done"], convs |-> convs]
        ELSE IF chunk # <<>>
        THEN [stream |-> [s EXCEPT !.pc = "ws_suspended", !.full_answer = @ \o chunk,
                                   !.sent = Append(@, <<"chunk", chunk>>)],
              convs |-> convs]
        ELSE IF event = "raise"
        THEN [stream |-> [s EXCEPT !.pc = "ws_failed",
                                   !.sent = Append(@, <<"error", "LLMError">>)],
              convs |-> stored]
        ELSE [stream |-> [s EXCEPT !.pc = "ws_end",
                                   !.sent = Append(@, <<"end", [i \in 1 .. Len(s.docs) |->
                                                                  WsSource(s.docs[i])]>>)],
              convs |-> stored]
websocket_chat(s, convs, now, deltas, event) ==
    LET chunk == FirstContent(deltas)
    IN  IF s.pc = "ws_end"
        THEN [stream |-> [s EXCEPT !.pc = "ws_done"],
              convs |-> add_conversation_turn(convs, s.conversation_id[1], s.question,
                                              s.full_answer, now)]
        ELSE IF chunk # <<>>
        THEN [stream |-> [s EXCEPT !.pc = "ws_suspended", !.full_answer = @ \o chunk,
                                   !.sent = Append(@, <<"chunk", chunk>>)],
              convs |-> convs]
        ELSE IF event = "raise"
        THEN [stream |-> [s EXCEPT !.pc = "ws_failed",
                                   !.sent = Append(@, <<"error", "LLMError">>)],
              convs |-> convs]
        ELSE [stream |-> [s EXCEPT !.pc = "ws_end",
                                   !.sent = Append(@, <<"end", [i \in 1 .. Len(s.docs) |->
                                                                  WsSource(s.docs[i])]>>)],
              convs |-> convs]

\* a client connects: the connection is accepted and its conversation is created
WsAccept ==
    /\ stream.pc = "idle"
    /\ ret = Idle
    /\ \E id \in uuid4(issued) :
        /\ conversations' = Put(conversations, id, << >>)
        /\ issued' = issued \cup {id}
        /\ stream' = [Streaming([question |-> << >>, conversation_id |-> Some(id)],
                                << >>, << >>) EXCEPT !.pc = "ws_open"]
    /\ UNCHANGED <<clock, collection, fallback_model, ret, th>>

\* the client sends a question: retrieval, history, the "start" message and the backend
\* call, and the handler runs to its next send
WsQuestion ==
    /\ stream.pc \in {"ws_open", "ws_done"}
    /\ ret = Idle
    /\ clock < MaxTotalTurns
    /\ \E question \in Questions \cup {<< >>}, fault \in Faults,
          outcome \in BackendOutcomes, deltas \in DeltaRuns(1), event \in StreamEvents :
        LET req == [question |-> question, conversation_id |-> stream.conversation_id]
            found == search_similar(collection, question, 5, fault)
            conversation_history ==
                Some(get_conversation_history(conversations, stream.conversation_id[1], None))
            opened == generate_response_stream(question, found.value,
                                               conversation_history, outcome)
            started == [Streaming(req, found.value, opened.calls) EXCEPT
                           !.pc = "ws_suspended", !.sent = << <<"start">> >>]
        IN  IF question = << >>
            THEN stream' = [stream EXCEPT !.pc = "ws_open", !.question = << >>,
                               !.sent = << <<"error", "Empty question">> >>]
            ELSE IF found.status = "raise"
            THEN stream' = [Streaming(req, << >>, << >>) EXCEPT
                               !.pc = "ws_failed", !.sent = << <<"error", found.error>> >>]
            ELSE IF opened.status = "raise"
            THEN stream' = [started EXCEPT !.pc = "ws_failed",
                               !.sent = Append(@, <<"error", opened.error>>)]
            ELSE stream' = websocket_chat(started, conversations, clock, deltas, event).stream
    /\ UNCHANGED <<conversations, clock, issued, collection, fallback_model, ret, th>>

\* the send has completed: the handler is resumed
WsNext ==
    /\ stream.pc \in {"ws_suspended", "ws_end"}
    /\ ret = Idle
    /\ clock < MaxTotalTurns
    /\ \E deltas \in DeltaRuns(Len(stream.sent)), event \in StreamEvents :
        LET r == websocket_chat(stream, conversations, clock, deltas, event)
        IN  /\ r.stream.pc = "ws_suspended" => Len(stream.sent) - 1 < MaxFragments
            /\ stream' = r.stream
            /\ conversations' = r.convs
            /\ clock' = IF r.convs # conversations THEN clock + 1 ELSE clock
    /\ UNCHANGED <<issued, collection, fallback_model, ret, th>>

\* the client disconnects: the pending send or receive raises WebSocketDisconnect
WsDisconnect ==
    /\ stream.pc \in {"ws_open", "ws_suspended", "ws_end", "ws_done"}
    /\ ret = Idle
    /\ stream' = [stream EXCEPT !.pc = "ws_closed"]
    /\ UNCHANGED <<conversations, clock, issued, collection, fallback_model, ret, th>>

\* the handler has returned; the next connection or streaming request can arrive
WsClose ==
    /\ stream.pc \in {"ws_failed", "ws_closed"}
    /\ stream' = NoStream
    /\ UNCHANGED <<conversations, clock, issued, collection, fallback_model, ret, th>>

\* a knowledge base that holds the chunks of a.txt and b.txt
TwoFiles == ingest_documents(<<>>, <<"a.txt", "b.txt">>, "none", "skip", {}).coll

InitStream ==
    /\ conversations = << >>
    /\ clock = 0
    /\ issued = {}
    /\ collection \in {<<>>, TwoFiles}
    /\ fallback_model \in FallbackModels \ {""}
    /\ ret = Idle
    /\ stream = NoStream
    /\ th = NoThreads

NextStream ==
    \/ StreamStart
    \/ StreamNext
    \/ StreamAbandon
    \/ StreamClose
    \/ AddConversationTurn
    \/ Return

SpecStream == InitStream /\ [][NextStream]_vars

\* the two streaming paths, HTTP stream and WebSocket chat, served one after the other
NextStreamPaths ==
    \/ StreamStart
    \/ StreamNext
    \/ StreamAbandon
    \/ StreamClose
    \/ WsAccept
    \/ WsQuestion
    \/ WsNext
    \/ WsDisconnect
    \/ WsClose

SpecStreamPaths == InitStream /\ [][NextStreamPaths]_vars

\* the text has a "Context:" block
HasContextBlock(content) == \E i \in 1 .. Len(content) : content[i] = "Context:\n"

\* C5 (as stated): a Generator entry point invoked with an empty passage list sends
\* messages with no "Context:" block and with the plain chat system instruction.
C5_NoContextWithoutPassages ==
    stream.pc # "idle" /\ stream.docs = <<>> =>
        \A c \in 1 .. Len(stream.calls) :
            LET messages == stream.calls[c].messages
            IN  /\ messages[1].content = ChatSystemPrompt
                /\ \A i \in 1 .. Len(messages) : ~HasContextBlock(messages[i].content)

----------------------------------------------------------------------------
(* ConversationMemory called from several threads: each method runs statement by *)
(* statement, and the threads interleave between statements (src/memory.py).     *)

Threads == {1, 2}

NewThread == [pc |-> "idle", op |-> "none", cid |-> "", n |-> 0, turn |-> << >>,
              status |-> "", disturbed |-> FALSE, created |-> << >>]

\* the identifiers create_conversation has returned to some caller
Returned == UNION {{th[t].created[i] : i \in 1 .. Len(th[t].created)} : t \in Threads}

\* the messages of the n-th call of thread t
UserMessage(t, n) == <<"q", ToString(t), ToString(n)>>
AssistantMessage(t, n) == <<"a", ToString(t), ToString(n)>>

CanCall(t) == th[t].pc \in {"idle", "done"} /\ th[t].n < MaxCalls

Begin(t, op, id) ==
    [th[t] EXCEPT !.pc = op, !.op = op, !.cid = id, !.n = @ + 1, !.turn = << >>,
                  !.status = "", !.disturbed = FALSE]

\* create_conversation, line 22: conversation_id = str(uuid.uuid4())
T_CreateUuid(t) ==
    /\ CanCall(t)
    /\ \E id \in uuid4(issued) :
        /\ issued' = issued \cup {id}
        /\ th' = [th EXCEPT ![t] = [Begin(t, "create", id) EXCEPT !.pc = "c_set"]]
    /\ UNCHANGED <<conversations, clock, collection, fallback_model, ret, stream>>

\* create_conversation, line 23: self.conversations[conversation_id] = []
T_CreateSet(t) ==
    /\ th[t].pc = "c_set"
    /\ conversations' = Put(conversations, th[t].cid, << >>)
    /\ th' = [th EXCEPT ![t].pc = "c_ret"]
    /\ UNCHANGED <<clock, issued, collection, fallback_model, ret, stream>>

\* create_conversation, line 25: return conversation_id
T_CreateReturn(t) ==
    /\ th[t].pc = "c_ret"
    /\ th' = [th EXCEPT ![t].pc = "done", ![t].status = "return",
                        ![t].created = Append(@, th[t].cid)]
    /\ UNCHANGED <<conversations, clock, issued, collection, fallback_model, ret, stream>>

\* add_conversation_turn, line 41: if conversation_id not in self.conversations
T_AddCheck(t) ==
    /\ CanCall(t)
    /\ clock < MaxTotalTurns
    /\ \E id \in Returned \cup OutOfBandIds :
        th' = [th EXCEPT ![t] = [Begin(t, "add", id) EXCEPT
                   !.pc = IF Known(conversations, id) THEN "a_turn" ELSE "a_init"]]
    /\ UNCHANGED <<conversations, clock, issued, collection, fallback_model, ret, stream>>

\* add_conversation_turn, line 42: self.conversations[conversation_id] = []
T_AddInit(t) ==
    /\ th[t].pc = "a_init"
    /\ conversations' = Put(conversations, th[t].cid, << >>)
    /\ th' = [th EXCEPT ![t].pc = "a_turn"]
    /\ UNCHANGED <<clock, issued, collection, fallback_model, ret, stream>>

\* add_conversation_turn, lines 44-48: turn = {timestamp, user, assistant}
T_AddTurn(t) ==
    /\ th[t].pc = "a_turn"
    /\ th' = [th EXCEPT ![t].pc = "a_append",
                        ![t].turn = Turn(clock, UserMessage(t, th[t].n),
                                         AssistantMessage(t, th[t].n))]
    /\ clock' = clock + 1
    /\ UNCHANGED <<conversations, issued, collection, fallback_model, ret, stream>>

\* add_conversation_turn, line 50: self.conversations[conversation_id].append(turn)
T_AddAppend(t) ==
    /\ th[t].pc = "a_append"
    /\ IF Known(conversations, th[t].cid)
       THEN /\ conversations' = Put(conversations, th[t].cid,
                                    Append(conversations[th[t].cid], th[t].turn))
            /\ th' = [th EXCEPT ![t].pc = "done", ![t].status = "return"]
       ELSE /\ UNCHANGED conversations
            /\ th' = [th EXCEPT ![t].pc = "done", ![t].status = "KeyError"]
    /\ UNCHANGED <<clock, issued, collection, fallback_model, ret, stream>>

\* the calls in progress or completed on id are marked as having met a removal
Disturb(ths, ids) ==
    [u \in Threads |-> IF ths[u].op = "add" /\ ths[u].cid \in ids
                       THEN [ths[u] EXCEPT !.disturbed = TRUE] ELSE ths[u]]

\* delete_conversation, line 88: if conversation_id in self.conversations
T_DeleteCheck(t) ==
    /\ CanCall(t)
    /\ \E id \in Returned \cup OutOfBandIds :
        th' = [th EXCEPT ![t] =
                  IF Known(conversations, id)
                  THEN [Begin(t, "delete", id) EXCEPT !.pc = "d_del"]
                  ELSE [Begin(t, "delete", id) EXCEPT !.pc = "done", !.status = "return"]]
    /\ UNCHANGED <<conversations, clock, issued, collection, fallback_model, ret, stream>>

\* delete_conversation, line 89: del self.conversations[conversation_id]
T_DeleteDel(t) ==
    /\ th[t].pc = "d_del"
    /\ IF Known(conversations, th[t].cid)
       THEN /\ conversations' = Del(conversations, th[t].cid)
            /\ th' = Disturb([th EXCEPT ![t].pc = "done", ![t].status = "return"],
                             {th[t].cid})
       ELSE /\ UNCHANGED conversations
            /\ th' = [th EXCEPT ![t].pc = "done", ![t].status = "KeyError"]
    /\ UNCHANGED <<clock, issued, collection, fallback_model, ret, stream>>

\* clear_all_conversations, line 119: self.conversations.clear()
T_ClearAll(t) ==
    /\ CanCall(t)
    /\ DOMAIN conversations # {}
    /\ conversations' = << >>
    /\ th' = Disturb([th EXCEPT ![t] = [Begin(t, "clear_all", "") EXCEPT
                                           !.pc = "done", !.status = "return"]],
                     DOMAIN conversations)
    /\ UNCHANGED <<clock, issued, collection, fallback_model, ret, stream>>

InitConc ==
    /\ conversations = << >>
    /\ clock = 0
    /\ issued = {}
    /\ collection = << >>
    /\ fallback_model \in FallbackModels \ {""}
    /\ ret = Idle
    /\ stream = NoStream
    /\ th = [t \in Threads |-> NewThread]

NextConc ==
    \E t \in Threads :
        \/ T_CreateUuid(t)
        \/ T_CreateSet(t)
        \/ T_CreateReturn(t)
        \/ T_AddCheck(t)
        \/ T_AddInit(t)
        \/ T_AddTurn(t)
        \/ T_AddAppend(t)
        \/ T_DeleteCheck(t)
        \/ T_DeleteDel(t)
        \/ T_ClearAll(t)

SpecConc == InitConc /\ [][NextConc]_vars

----------------------------------------------------------------------------
(* The generator called with histories of any length (src/llm.py) *)

\* a conversation grows by one turn
MsgAddTurn ==
    /\ ret = Idle
    /\ clock < MaxHistory
    /\ \E q \in Questions :
        conversations' = add_conversation_turn(conversations, "ext", q, <<"O", "K">>, clock)
    /\ clock' = clock + 1
    /\ UNCHANGED <<issued, collection, fallback_model, ret, stream, th>>

\* the histories a caller of the generator passes: none, or the log of the conversation
HistoryArgs == {None, Some(get_conversation_history(conversations, "ext", None))}

\* generate_response(query, context_documents, conversation_history)
MsgGenerateResponse ==
    /\ ret = Idle
    /\ \E q \in Questions, k \in TopKArgs, h \in HistoryArgs, oracle \in Oracles :
        LET docs == search_similar(collection, q, k, "none").value
            out == generate_response(q, docs, h, fallback_model, oracle)
        IN  ret' = [op |-> "generate", mode |-> "rag", query |-> q, history |-> h,
                    calls |-> out.calls]
    /\ UNCHANGED <<conversations, clock, issued, collection, fallback_model, stream, th>>

\* generate_general_response(query, conversation_history)
MsgGenerateGeneralResponse ==
    /\ ret = Idle
    /\ \E q \in Questions, h \in HistoryArgs, oracle \in Oracles :
        LET out == generate_general_response(q, h, fallback_model, oracle)
        IN  ret' = [op |-> "generate", mode |-> "general", query |-> q, history |-> h,
                    calls |-> out.calls]
    /\ UNCHANGED <<conversations, clock, issued, collection, fallback_model, stream, th>>

InitMsg ==
    /\ conversations = << >>
    /\ clock = 0
    /\ issued = {}
    /\ collection = TwoFiles
    /\ fallback_model \in FallbackModels
    /\ ret = Idle
    /\ stream = NoStream
    /\ th = NoThreads

NextMsg ==
    \/ MsgAddTurn
    \/ MsgGenerateResponse
    \/ MsgGenerateGeneralResponse
    \/ Return

SpecMsg == InitMsg /\ [][NextMsg]_vars

----------------------------------------------------------------------------
(* ask_question over passages of any length (src/rag_pipeline.py) *)

\* the lengths of the texts of the ingested files
PassageLengths == {1, 199, 200, 201}

\* a document as ingest_document returns it, whose text has n characters
Document(name, n) == [file_path |-> name, file_name |-> name, content |-> [i \in 1 .. n |-> "A"]]

\* the index after the documents a.txt and b.txt, of n1 and n2 characters, were ingested
IndexOf(n1, n2) ==
    add_documents(<< >>, process_documents(<<Document("a.txt", n1), Document("b.txt", n2)>>, {}),
                  "none", "skip").coll

InitSources ==
    /\ conversations = << >>
    /\ clock = 0
    /\ issued = {}
    /\ collection \in {IndexOf(n1, n2) : n1, n2 \in PassageLengths}
    /\ fallback_model \in FallbackModels \ {""}
    /\ ret = Idle
    /\ stream = NoStream
    /\ th = NoThreads

NextSources ==
    \/ AskQuestion
    \/ Return

SpecSources == InitSources /\ [][NextSources]_vars

----------------------------------------------------------------------------
(* The chunker given documents of any short text (src/preprocess.py) *)

\* the characters of the texts: a word character, whitespace, a character cleaning drops
TextChars == {"A", " ", "\n", "#"}

\* the texts of at most MaxTextLen characters
Texts == UNION {[1 .. n -> TextChars] : n \in 0 .. MaxTextLen}

\* chunk_document(document)
ChunkDocument ==
    /\ ret = Idle
    /\ \E name \in {"a.txt", "b.txt"}, text \in Texts :
        LET document == [file_path |-> name, file_name |-> name, content |-> text]
        IN  ret' = [op |-> "chunk", document |-> document,
                    value |-> chunk_document(document, FALSE)]
    /\ UNCHANGED <<conversations, clock, issued, collection, fallback_model, stream, th>>

NextChunk ==
    \/ ChunkDocument
    \/ Return

SpecChunk == Init /\ [][NextChunk]_vars

----------------------------------------------------------------------------
(* Properties of the pipeline *)

IsPrefix(s, t) == Len(s) <= Len(t) /\ SubSeq(t, 1, Len(s)) = s

Asked == ret.op = "ask"
AskCalls == ret.seen.gen.calls
OK == <<"O", "K">>

\* C1 (as stated): in every generation call a failed primary-model call is followed by
\* exactly one further backend call, made with the fallback model; if that one fails too
\* the generation ends with LLMError; there are never more than two backend calls.
C1_FallbackAlwaysTried ==
    Asked =>
        /\ Len(AskCalls) \in 1 .. 2
        /\ AskCalls[1].model = model
        /\ AskCalls[1].ok => Len(AskCalls) = 1
        /\ ~AskCalls[1].ok => Len(AskCalls) = 2 /\ AskCalls[2].model = fallback_model
        /\ Len(AskCalls) = 2 /\ ~AskCalls[2].ok =>
               ret.seen.gen.status = "raise" /\ ret.seen.gen.error = "LLMError"

\* C1 (amended): as above, except that general-chat generation with an empty
\* fallback_model configured makes no second call: the failed primary call ends the
\* generation with LLMError after one backend call.
C1_FallbackOnce ==
    Asked =>
        /\ Len(AskCalls) \in 1 .. 2
        /\ AskCalls[1].model = model
        /\ AskCalls[1].ok => Len(AskCalls) = 1 /\ ret.seen.gen.status = "return"
        /\ ~AskCalls[1].ok =>
               IF ret.seen.mode = "general" /\ fallback_model = ""
               THEN /\ Len(AskCalls) = 1
                    /\ ret.seen.gen.status = "raise" /\ ret.seen.gen.error = "LLMError"
               ELSE Len(AskCalls) = 2 /\ AskCalls[2].model = fallback_model
        /\ Len(AskCalls) = 2 /\ ~AskCalls[2].ok =>
               ret.seen.gen.status = "raise" /\ ret.seen.gen.error = "LLMError"
        /\ Len(AskCalls) = 2 /\ AskCalls[2].ok => ret.seen.gen.status = "return"

C1_Witness ==
    /\ Asked /\ ret.seen.mode = "rag"
    /\ Len(AskCalls) = 2 /\ ~AskCalls[2].ok
    /\ ret.seen.gen.status = "raise"

\* C2: when the primary model fails and the configured fallback model answers "OK",
\* ask_question returns (does not raise) with answer "OK", in RAG mode and in
\* general-chat mode, with or without a conversation_id.
C2_FallbackAnswerReturned ==
    Asked /\ fallback_model # "" /\ ~AskCalls[1].ok
          /\ (Len(AskCalls) >= 2 => AskCalls[2].ok) =>
        /\ Len(AskCalls) = 2
        /\ AskCalls[2].model = fallback_model
        /\ ret.status = "return"
        /\ ret.out.answer = OK

C2_Witness ==
    /\ Asked /\ ret.status = "return" /\ ret.seen.mode = "general"
    /\ Len(AskCalls) = 2 /\ ~AskCalls[1].ok
    /\ ret.conversation_id = Some("ext") /\ ret.out.answer = OK

\* C3: with an empty index (never filled, or emptied by clear_knowledge_base) and a
\* working chat backend, ask_question returns with sources = [] in general-chat mode;
\* a clear_knowledge_base that returns leaves the index empty.
C3_EmptyIndexGeneralChat ==
    /\ Asked /\ ret.index_size = 0 /\ AskCalls[1].ok =>
           /\ ret.status = "return"
           /\ ret.out.sources = <<>>
           /\ ret.seen.mode = "general"
           /\ AskCalls[1].messages[1].content = ChatSystemPrompt
    /\ ret.op = "clear_kb" /\ ret.status = "return" => collection = <<>>

C3_Witness ==
    /\ Asked /\ ret.index_size = 0 /\ ret.seen.retrieval = "return"
    /\ ret.status = "return" /\ ret.out.sources = <<>>
    /\ ret.conversation_id # None

\* C4: a failure of the retrieval step of ask_question never reaches the caller: the
\* answer comes from the general-chat path, the sources are empty, and if the call
\* raises it is the generation that failed.
C4_RetrievalFailureSwallowed ==
    Asked /\ ret.seen.retrieval = "raise" =>
        /\ ret.seen.mode = "general"
        /\ ret.seen.docs = <<>>
        /\ AskCalls[1].messages[1].content = ChatSystemPrompt
        /\ ret.status = "return" => ret.out.sources = <<>> /\ ret.out.answer = ret.seen.gen.answer
        /\ ret.status = "raise" => ret.seen.gen.status = "raise"

C4_Witness ==
    /\ Asked /\ ret.seen.retrieval = "raise" /\ ret.index_size > 0
    /\ ret.status = "return" /\ ret.out.sources = <<>>

\* the conversation_id arguments ask_question treats as given (a non-empty string)
Given(conversation_id) == conversation_id # None /\ conversation_id # Some("")

LogOf(convs, id) == IF id \in DOMAIN convs THEN convs[id] ELSE <<>>

\* C6: when ask_question returns with a conversation_id given, that conversation's log is
\* its log before the call followed by one new turn (user = the question, assistant = the
\* returned answer); with no conversation_id the store is unchanged.
C6_AskAppendsOneTurn ==
    Asked /\ ret.status = "return" =>
        IF Given(ret.conversation_id)
        THEN LET id == ret.conversation_id[1]
                 old == LogOf(ret.before, id)
             IN  /\ id \in DOMAIN conversations
                 /\ Len(conversations[id]) = Len(old) + 1
                 /\ SubSeq(conversations[id], 1, Len(old)) = old
                 /\ conversations[id][Len(old) + 1].user = ret.question
                 /\ conversations[id][Len(old) + 1].assistant = ret.out.answer
        ELSE conversations = ret.before

C6_Witness ==
    /\ Asked /\ ret.status = "return" /\ Given(ret.conversation_id)
    /\ LogOf(ret.before, ret.conversation_id[1]) # <<>>
    /\ ret.question # LogOf(ret.before, ret.conversation_id[1])[1].user

\* C7: get_conversation_history(id, n) with n >= 1 returns the last min(n, m) turns of
\* the log of length m, in order; with max_turns unset the full log; for an unknown id
\* the empty sequence, and the store is not changed.
C7_HistorySuffix ==
    ret.op = "history" =>
        LET log == LogOf(conversations, ret.cid)
            m == Len(log)
        IN  /\ conversations = ret.before
            /\ ret.cid \notin DOMAIN conversations => ret.value = <<>>
            /\ ret.cid \in DOMAIN conversations /\ ret.max_turns = None => ret.value = log
            /\ ret.cid \in DOMAIN conversations /\ ret.max_turns # None /\ ret.max_turns[1] >= 1 =>
                   LET k == IF ret.max_turns[1] < m THEN ret.max_turns[1] ELSE m
                   IN  /\ Len(ret.value) = k
                       /\ \A i \in 1 .. k : ret.value[i] = log[m - k + i]

C7_Witness ==
    /\ ret.op = "history" /\ ret.max_turns = Some(1)
    /\ ret.cid \in DOMAIN conversations /\ Len(conversations[ret.cid]) = 2
    /\ ret.value = <<conversations[ret.cid][2]>>

\* C8: a step of create, append, history, list or ask (any step but delete and clear)
\* keeps every conversation and extends its log: the old log is a prefix of the new one.
C8_AppendOnly ==
    [][ret'.op \notin {"delete", "clear_all"} =>
          \A id \in DOMAIN conversations :
              /\ id \in DOMAIN conversations'
              /\ IsPrefix(conversations[id], conversations'[id])]_vars

C8_Witness ==
    /\ ret.op \in {"ask", "append"}
    /\ \E id \in DOMAIN ret.before :
          /\ ret.before[id] # <<>>
          /\ Len(conversations[id]) = Len(ret.before[id]) + 1

\* the identifiers the create_conversation calls have returned, with repetitions counted
NumCreated == Len(th[1].created) + Len(th[2].created)

\* C9: the identifiers returned by create_conversation calls are pairwise distinct,
\* under any interleaving with other store calls, and at the moment a call returns,
\* get_conversation_history on the returned identifier is empty.
C9_CreateDistinctAndEmpty ==
    /\ [](Cardinality(Returned) = NumCreated)
    /\ [][\A t \in Threads :
             th[t].pc = "c_ret" /\ th'[t].pc = "done" =>
                 get_conversation_history(conversations', th'[t].cid, None) = << >>]_vars

C9_Witness ==
    /\ \A t \in Threads : th[t].created # << >>
    /\ \E t \in Threads : th[t].op = "create" /\ th[t].pc = "done" /\ th[t].n = 2
    /\ \E id \in DOMAIN conversations : conversations[id] # << >>

\* thread t has completed an add_conversation_turn on id that met no delete or clear
Added(t, id) ==
    /\ th[t].op = "add" /\ th[t].pc = "done" /\ th[t].cid = id
    /\ th[t].status = "return" /\ ~th[t].disturbed

\* C10 (as stated): once two concurrent add_conversation_turn calls on the same id have
\* completed, the log of that id holds both turns, each with its own user/assistant pair.
C10_BothTurnsKept ==
    \A id \in Returned \cup OutOfBandIds :
        Added(1, id) /\ Added(2, id) =>
            /\ id \in DOMAIN conversations
            /\ \A t \in Threads :
                   \E i \in 1 .. Len(conversations[id]) : conversations[id][i] = th[t].turn

\* C11: delete_conversation(id) returns true exactly when a log for id existed, even an
\* empty one; it then removes the log, so that the history of id is empty and
\* list_conversations has no entry for id; otherwise it returns false and the store is
\* unchanged; every other conversation's log is unchanged in both cases.
C11_DeleteRemovesOnlyThatLog ==
    ret.op = "delete" =>
        /\ ret.value = (ret.cid \in DOMAIN ret.before)
        /\ ret.value =>
               /\ get_conversation_history(conversations, ret.cid, None) = << >>
               /\ \A e \in list_conversations(conversations) : e.conversation_id # ret.cid
               /\ DOMAIN conversations = DOMAIN ret.before \ {ret.cid}
        /\ ~ret.value => conversations = ret.before
        /\ \A id \in DOMAIN ret.before \ {ret.cid} :
               id \in DOMAIN conversations /\ conversations[id] = ret.before[id]

C11_Witness ==
    /\ ret.op = "delete" /\ ret.value
    /\ ret.before[ret.cid] = << >>
    /\ \E id \in DOMAIN conversations : conversations[id] # << >>

\* C12: add_conversation_turn on an identifier unknown to the store (never created, or
\* deleted) creates a log holding exactly that one turn; on a known identifier it adds
\* the turn at the end of the log; the logs of all other conversations are unchanged.
C12_LazyAppend ==
    ret.op = "append" =>
        LET old == IF ret.cid \in DOMAIN ret.before THEN ret.before[ret.cid] ELSE << >>
            log == conversations[ret.cid]
        IN  /\ DOMAIN conversations = DOMAIN ret.before \cup {ret.cid}
            /\ Len(log) = Len(old) + 1
            /\ SubSeq(log, 1, Len(old)) = old
            /\ log[Len(log)].user = ret.user
            /\ log[Len(log)].assistant = ret.assistant
            /\ \A id \in DOMAIN ret.before \ {ret.cid} : conversations[id] = ret.before[id]

C12_Witness ==
    /\ ret.op = "append"
    /\ ret.cid \in issued /\ ret.cid \notin DOMAIN ret.before
    /\ Len(conversations[ret.cid]) = 1
    /\ \E id \in DOMAIN ret.before : ret.before[id] # << >>

\* the turns of the history passed to the generator
PassedTurns(h) == IF h = None THEN << >> ELSE h[1]

\* C13: for a history of h turns, every message sequence sent to the backend, in RAG
\* mode and in general-chat mode, is one system message, then a user and an assistant
\* message for each of the last min(5, h) turns, oldest first, then one user message
\* carrying the question: 2 + 2 * min(5, h) messages, none from an older turn.
C13_MessageSequence ==
    ret.op = "generate" =>
        \A c \in 1 .. Len(ret.calls) :
            LET messages == ret.calls[c].messages
                turns == PassedTurns(ret.history)
                h == Len(turns)
                k == Min(5, h)
                last == messages[Len(messages)]
            IN  /\ Len(messages) = 2 + 2 * k
                /\ messages[1].role = "system"
                /\ \A j \in 1 .. k :
                       /\ messages[2 * j] = Message("user", turns[h - k + j].user)
                       /\ messages[2 * j + 1] = Message("assistant", turns[h - k + j].assistant)
                /\ last.role = "user"
                /\ PySliceFrom(last.content, 0 - Len(ret.query)) = ret.query
                /\ ret.mode = "general" => last.content = ret.query

C13_Witness ==
    /\ ret.op = "generate" /\ ret.mode = "rag"
    /\ Len(PassedTurns(ret.history)) > 5
    /\ Len(ret.calls) = 2
    /\ PassedTurns(ret.history)[1].user # PassedTurns(ret.history)[2].user

\* some file of the batch is missing, unreadable or of an unsupported type
SomeFileFails(file_paths) ==
    \E i \in 1 .. Len(file_paths) : ingest_document(file_paths[i]).status = "raise"

\* C14 (as stated): if any one file passed to ingest_documents is missing, unreadable or
\* of an unsupported type, the call aborts and the error raised to the caller is of the
\* DocumentIngestionError kind.
C14_IngestionErrorKind ==
    ret.op = "ingest" /\ SomeFileFails(ret.file_paths) =>
        /\ ret.status = "raise"
        /\ IsInstance(ret.error, "DocumentIngestionError")

\* the identifiers of the chunks of the files read before the failing file
EarlierIds(file_paths) ==
    LET chunks == process_documents(ReadablePrefix(file_paths), {})
    IN  {chunks[i].chunk_id : i \in 1 .. Len(chunks)}

\* ingest_documents was aborted by an unreadable file that follows readable files
AbortedAfterReadable ==
    /\ ret.op = "ingest" /\ ret.status = "raise"
    /\ ret.cause = "DocumentIngestionError"
    /\ EarlierIds(ret.file_paths) # {}

\* C15 (as stated): when ingest_documents is aborted by an unreadable file that follows
\* readable files, the chunks of those earlier files remain in the index after the call.
C15_EarlierChunksCommitted ==
    AbortedAfterReadable => EarlierIds(ret.file_paths) \subseteq Ids(collection)

\* C15 (amended): when ingest_documents is aborted by an unreadable file, the index is
\* exactly what it was before the call: no chunk of an earlier file has been stored.
C15_AbortLeavesIndexUnchanged ==
    ret.op = "ingest" /\ ret.status = "raise" /\ ret.cause = "DocumentIngestionError" =>
        collection = ret.index_before

C15_Witness ==
    /\ AbortedAfterReadable
    /\ EarlierIds(ret.file_paths) \cap Ids(collection) = {}

\* every file of the batch is readable and has been ingested before: the index held
\* entries of each of them when the call started
IngestedBefore(file_paths, index) ==
    /\ file_paths # << >>
    /\ \A i \in 1 .. Len(file_paths) :
           /\ ingest_document(file_paths[i]).status = "return"
           /\ \E e \in 1 .. Len(index) :
                  index[e].metadata.source_path = file_paths[i]

\* the identifiers of the chunks made of the files of the batch
BatchIds(file_paths) ==
    LET chunks == process_documents(ReadAll(file_paths).value, {})
    IN  {chunks[i].chunk_id : i \in 1 .. Len(chunks)}

\* C16: ingesting identical documents a second time succeeds, produces the chunk ids
\* the index already holds for them, and leaves the index as it was after the first
\* ingest: same ids, same contents, no identifier held twice.
C16_ReingestIdempotent ==
    ret.op = "ingest" /\ ret.fault = "none" /\ ret.failing = {}
    /\ IngestedBefore(ret.file_paths, ret.index_before) =>
        /\ ret.status = "return"
        /\ BatchIds(ret.file_paths) \subseteq Ids(ret.index_before)
        /\ collection = ret.index_before
        /\ Cardinality(Ids(collection)) = Len(collection)

C16_Witness ==
    /\ ret.op = "ingest" /\ ret.fault = "none" /\ ret.failing = {}
    /\ ret.status = "return"
    /\ ret.file_paths = <<"a.txt", "b.txt">>
    /\ IngestedBefore(ret.file_paths, ret.index_before)
    /\ Len(collection) = 2

\* the fragments the consumer has received from the streaming query in progress
Delivered == IF stream.pc = "idle" THEN << >> ELSE stream.sent

IsErrorFragment(fragment) == fragment # << >> /\ fragment[1] = "\n\nError: "

\* C17: a streaming generation never retries or restarts: the backend is called once,
\* with the primary model, and when the stream fails after k >= 0 fragments the consumer
\* has received exactly those k fragments followed by one error fragment, and the
\* stream then ends.
C17_StreamFailsOnce ==
    /\ [](stream.pc # "idle" =>
              /\ Len(stream.calls) <= 1
              /\ stream.pc \in {"suspended", "done", "abandoned"} => Len(stream.calls) = 1
              /\ \A c \in 1 .. Len(stream.calls) :
                     stream.calls[c].model = model /\ stream.calls[c].stream
              /\ \A i \in 1 .. Len(stream.sent) :
                     IsErrorFragment(stream.sent[i]) =>
                         stream.pc = "failed" /\ i = Len(stream.sent))
    /\ [][stream'.pc = "failed" /\ stream.pc # "failed" =>
              /\ Len(stream'.sent) = Len(Delivered) + 1
              /\ SubSeq(stream'.sent, 1, Len(Delivered)) = Delivered
              /\ IsErrorFragment(stream'.sent[Len(stream'.sent)])
              /\ stream.pc # "idle" => stream'.calls = stream.calls]_vars
    /\ [][stream.pc = "failed" /\ stream' # stream => stream' = NoStream]_vars

C17_Witness ==
    /\ stream.pc = "failed"
    /\ Len(stream.sent) = 3
    /\ stream.sent[1] = <<"O">> /\ stream.sent[2] = <<"K">>
    /\ stream.calls[1].ok

\* no turn is added by the step: every log is what it was, and a new log is empty
LogsKept ==
    /\ DOMAIN conversations \subseteq DOMAIN conversations'
    /\ \A id \in DOMAIN conversations' :
           conversations'[id] = IF id \in DOMAIN conversations THEN conversations[id]
                                ELSE << >>

\* the step adds to the log of id one turn, the question with the assembled answer
TurnRecorded(id, question, answer) ==
    /\ DOMAIN conversations' = DOMAIN conversations \cup {id}
    /\ \A k \in DOMAIN conversations \ {id} : conversations'[k] = conversations[k]
    /\ LET old == IF id \in DOMAIN conversations THEN conversations[id] ELSE << >>
           log == conversations'[id]
       IN  /\ Len(log) = Len(old) + 1
           /\ SubSeq(log, 1, Len(old)) = old
           /\ log[Len(log)].user = question
           /\ log[Len(log)].assistant = answer

\* C18: in the streaming paths (HTTP stream and WebSocket chat) a turn is appended only
\* by the step that follows the end of the backend stream; every other step of the
\* request, a fragment sent, a failure, the consumer gone, leaves every log unchanged.
C18_TurnOnlyAfterFullStream ==
    [][stream' # stream =>
          IF stream'.pc = "done"
          THEN IF TruthyStr(stream'.conversation_id)
               THEN TurnRecorded(stream'.conversation_id[1], stream'.question,
                                 stream'.full_answer)
               ELSE LogsKept
          ELSE IF stream'.pc = "ws_done"
          THEN /\ stream.pc = "ws_end"
               /\ TurnRecorded(stream'.conversation_id[1], stream'.question,
                               stream'.full_answer)
          ELSE LogsKept]_vars

C18_Witness ==
    /\ stream.pc = "abandoned"
    /\ Len(stream.sent) = 2
    /\ TruthyStr(stream.conversation_id)
    /\ stream.conversation_id[1] \in issued
    /\ stream.conversation_id[1] \in DOMAIN conversations
    /\ Len(conversations[stream.conversation_id[1]]) = 1

\* C19 (as stated): the sources list returned by ask_question has one entry per retrieved
\* passage, in retrieval order, and every content_preview has at most 200 characters,
\* whatever the length of the passage.
C19_SourcesPreviewBounded ==
    ret.op = "ask" /\ ret.status = "return" =>
        LET sources == ret.out.sources
            docs == ret.seen.docs
        IN  /\ Len(sources) = Len(docs)
            /\ \A i \in 1 .. Len(sources) :
                   /\ sources[i].source = docs[i].metadata.source_document
                   /\ Len(sources[i].content_preview) <= 200

\* both generation calls of the ask_question call failed, the primary and the fallback
BothModelsFailed ==
    /\ ret.op = "ask"
    /\ Len(ret.seen.gen.calls) = 2
    /\ ret.seen.gen.calls[1].model = model /\ ~ret.seen.gen.calls[1].ok
    /\ ret.seen.gen.calls[2].model = fallback_model /\ ~ret.seen.gen.calls[2].ok

\* C20 (as stated): when both the primary and the fallback generation calls fail during
\* ask_question, the error that reaches the caller is of the LLMError kind.
C20_GenerationErrorKindKept ==
    BothModelsFailed =>
        /\ ret.status = "raise"
        /\ IsInstance(ret.out, "LLMError")

\* the one chunk of a document: index 0, id "{file_name}_chunk_0", the cleaned text
OneChunk(document, chunks) ==
    /\ Len(chunks) = 1
    /\ chunks[1].chunk_index = 0
    /\ chunks[1].chunk_id = <<document.file_name, "_chunk_", "0">>
    /\ chunks[1].content = clean_text(document.content)

\* C21 (as stated): for every document whose text is no longer than chunk_size, the
\* empty text and the text that cleaning reduces to nothing included, chunk_document
\* yields exactly one chunk, with index 0, id "{file_name}_chunk_0" and the cleaned text.
C21_AlwaysOneChunk ==
    ret.op = "chunk" => OneChunk(ret.document, ret.value)

\* C21 (amended): a document whose cleaned text is not empty yields exactly that one
\* chunk; a document whose text is empty or is reduced to nothing by cleaning yields
\* no chunk.
C21_OneChunkUnlessEmpty ==
    ret.op = "chunk" =>
        IF clean_text(ret.document.content) = << >> THEN ret.value = << >>
        ELSE OneChunk(ret.document, ret.value)

C21_Witness ==
    /\ ret.op = "chunk"
    /\ Len(ret.value) = 1
    /\ Len(ret.document.content) = 3
    /\ Len(ret.value[1].content) = 1

\* C22 (as stated): get_conversation_history(id, max_turns) never returns more than
\* max_turns elements for an integer max_turns >= 0; with max_turns = 0 it returns the
\* empty sequence.
C22_AtMostMaxTurns ==
    ret.op = "history" /\ ret.max_turns # None /\ ret.max_turns[1] >= 0 =>
        Len(ret.value) <= ret.max_turns[1]

\* every file of the batch was read, and the chunking of one of its documents raised
ChunkingFailed ==
    /\ ret.op = "ingest"
    /\ ~SomeFileFails(ret.file_paths)
    /\ \E i \in 1 .. Len(ret.file_paths) : FileName(ret.file_paths[i]) \in ret.failing

\* C23 (as stated): if chunking of any document of the batch fails, ingest_documents
\* raises an error to the caller; it does not return successfully with that document's
\* chunks missing from the index.
C23_ChunkingFailureRaised ==
    ChunkingFailed => ret.status = "raise"

\* C24: when ask_question raises, the conversation store is exactly as it was before the
\* call: no turn is appended and no conversation is created for the given
\* conversation_id, also when that identifier was unknown before.
C24_RaiseLeavesStoreUnchanged ==
    ret.op = "ask" /\ ret.status = "raise" => conversations = ret.before

\* both models failed on a question asked under an identifier the store did not know,
\* while another conversation held a turn
C24_Witness ==
    /\ BothModelsFailed /\ ret.status = "raise"
    /\ ret.conversation_id # None /\ TruthyStr(ret.conversation_id)
    /\ ~Known(ret.before, ret.conversation_id[1])
    /\ \E id \in DOMAIN ret.before : ret.before[id] # <<>>

\* the chunks one ingest_documents call made of the files of its batch
ProducedChunks ==
    process_documents(ReadAll(ret.file_paths).value, ret.failing)

\* C25 (as stated): within one ingest batch the chunk_ids of all produced chunks are
\* pairwise distinct: chunks of two different source files never share a chunk_id.
C25_BatchChunkIdsDistinct ==
    ret.op = "ingest" /\ ~SomeFileFails(ret.file_paths) =>
        \A i, j \in 1 .. Len(ProducedChunks) :
            ProducedChunks[i].chunk_id = ProducedChunks[j].chunk_id => i = j

====
